---- MODULE Spec2Model ----
(***************************************************************************)
(* Model of the fraud scorer of src/fraud_detector.py (class               *)
(* FraudDetector): construction and _initialize_model (load or bootstrap   *)
(* and save), _prepare_features, predict_fraud and get_fraud_reasons.      *)
(*                                                                         *)
(* Units.  Probabilities are integers in hundredths (0.8 is 80, 0.5 is     *)
(* 50).  Amounts are integers in hundredths of a rupee (1 is 100, 50000 is *)
(* 5000000), the resolution of the amount field.                           *)
(*                                                                         *)
(* Abstractions.  The random forest, the label encoders and the scaler are *)
(* library objects.  Each is a record that keeps which Python object it is *)
(* (obj), what it was last fit on (fitOn) and, for an encoder, its sorted  *)
(* classes_.  The fitted forest is an opaque deterministic function of its *)
(* training matrix: it is a seed, and predict_proba is a fixed table       *)
(* lookup on the seed and the scaled feature row.                          *)
(***************************************************************************)
EXTENDS Integers, Sequences, FiniteSets, TLC

VARIABLES
    model,            \* self.model
    label_encoders,   \* self.label_encoders
    scaler,           \* self.scaler
    feature_columns,  \* self.feature_columns
    is_trained,       \* self.is_trained
    training_data,    \* self.training_data exists
    file,             \* fraud_model.joblib on disk
    alive,            \* the module-level instance fraud_detector exists
    objects,          \* number of FraudDetector() constructions so far
    lastInit,         \* what the latest _initialize_model call did
    lastSaved,        \* the Model State handed to the latest successful joblib.dump
    last,             \* the latest predict_fraud / get_fraud_reasons call and its result
    transactions,     \* the rows of table transaction, in id order (src/models.py)
    alerts,           \* the rows of table fraud_alert, in id order
    submitted         \* what the latest valid POST of /test-transaction did

vars == <<model, label_encoders, scaler, feature_columns, is_trained, training_data,
          file, alive, objects, lastInit, lastSaved, last, transactions, alerts, submitted>>

db == <<transactions, alerts, submitted>>

----------------------------------------------------------------------------
(* Bounds and program constants *)

MaxObjects == 2
MaxTransactions == 2

HighRisk == 80
MediumRisk == 50
NeutralProbability == 50
VeryHighAmount == 5000000
LowAmount == 100
FirstUsualHour == 6
LastUsualHour == 22
FraudFlagThreshold == 50
AlertThreshold == 70
MinAmount == 1
MaxAmount == 100000000

NoValue == "<absent>"

Cols == <<"transaction_type", "merchant_category">>

FeatureColumns ==
    <<"amount", "hour", "day_of_week", "transaction_type_encoded",
      "amount_percentile", "merchant_category_encoded">>

Keys == <<"model", "label_encoders", "scaler", "feature_columns", "is_trained">>

\* every label of the model in the order np.unique sorts strings
SortedLabels ==
    <<"CRYPTO", "EDUCATION", "ENTERTAINMENT", "FOOD", "FUEL", "HEALTHCARE", "OTHER",
      "P2B", "P2M", "P2P", "RETAIL", "TRAVEL", "UPI", "UTILITIES">>

\* the values of the two categorical columns of the synthetic training frame
SyntheticLabels(col) ==
    IF col = "transaction_type"
    THEN {"P2P", "P2M", "P2B"}
    ELSE {"FOOD", "RETAIL", "FUEL", "HEALTHCARE", "EDUCATION",
          "ENTERTAINMENT", "TRAVEL", "UTILITIES", "OTHER"}

\* the predict_proba values the abstract forest can answer with
ProbTable == <<0, 30, 50, 51, 70, 71, 80, 81, 100>>

----------------------------------------------------------------------------
(* Library objects *)

NewClassifier == [obj |-> "ctor", fitOn |-> "none", seed |-> 0]
NewScaler == [obj |-> "ctor", fitOn |-> "none"]
NoEncoder == [obj |-> "none", fitOn |-> "none", classes |-> <<>>]
NewEncoder == [obj |-> "new", fitOn |-> "none", classes |-> <<>>]
EmptyEncoders == [c \in {Cols[1], Cols[2]} |-> NoEncoder]

\* LabelEncoder.fit: classes_ = np.unique(values)
FitEncoder(enc, values, rows) ==
    [enc EXCEPT !.fitOn = rows,
                !.classes = SelectSeq(SortedLabels, LAMBDA l : l \in values)]

IndexOf(seq, x) == CHOOSE i \in 1..Len(seq) : seq[i] = x
InSeq(seq, x) == \E i \in 1..Len(seq) : seq[i] = x

RECURSIVE SumSeq(_)
SumSeq(s) == IF s = <<>> THEN 0 ELSE Head(s) + SumSeq(Tail(s))

----------------------------------------------------------------------------
(* Frames.  A batch is the synthetic training frame or the one-row frame    *)
(* predict_fraud builds from a record.                                      *)

\* a transaction record with every key absent
NoRecord ==
    [hasAmount |-> FALSE, amount |-> 0, transaction_type |-> NoValue,
     merchant_category |-> NoValue, timestamp |-> [kind |-> "absent", hour |-> 0, weekday |-> 0]]

TrainingFrame == [rows |-> "synthetic", rec |-> NoRecord, hour |-> 0, weekday |-> 0]
RecordFrame(rec, hour, weekday) ==
    [rows |-> "inference", rec |-> rec, hour |-> hour, weekday |-> weekday]

HasAmount(batch) == batch.rows = "synthetic" \/ batch.rec.hasAmount
HasColumn(batch, col) == batch.rows = "synthetic" \/ batch.rec[col] # NoValue
ColumnLabels(batch, col) ==
    IF batch.rows = "synthetic" THEN SyntheticLabels(col) ELSE {batch.rec[col]}

\* pd.qcut(q=10, duplicates='drop') of a one-row column has a single bin edge
\* and yields NaN (-1 here); fillna(0) turns it into 0
NaN == 0 - 1
AmountPercentile(batch) == NaN
Fillna(v) == IF v = NaN THEN 0 ELSE v

----------------------------------------------------------------------------
(* _prepare_features *)

\* the mutant of EncodeColumn: no "except ValueError" around transform
EncodeColumnNoFallback(encs, batch, col) ==
    LET present == HasColumn(batch, col)
        labels == ColumnLabels(batch, col)
        e1 == IF encs[col].obj # "none" THEN encs[col]
              ELSE IF present THEN FitEncoder(NewEncoder, labels, batch.rows)
              ELSE NewEncoder
        encs1 == [encs EXCEPT ![col] = e1]
        seen == \A l \in labels : InSeq(e1.classes, l)
    IN  IF ~present \/ ~seen
        THEN [encs |-> encs1, raised |-> TRUE, zeroed |-> FALSE, code |-> 0]
        ELSE [encs |-> encs1, raised |-> FALSE, zeroed |-> FALSE,
              code |-> IF batch.rows = "inference"
                       THEN IndexOf(e1.classes, batch.rec[col]) - 1 ELSE 0]

\* one round of the loop over the categorical columns (lines 99-109): the
\* encoder is created and fit when the dict has no entry for the column, the
\* column is transformed, and a ValueError of transform (an unseen label, or
\* NotFittedError, which is a ValueError) sets the whole encoded column to 0.
\* A column the frame does not have raises KeyError, which is not caught here.
EncodeColumn(encs, batch, col) ==
    LET present == HasColumn(batch, col)
        labels == ColumnLabels(batch, col)
        e1 == IF encs[col].obj # "none" THEN encs[col]
              ELSE IF present THEN FitEncoder(NewEncoder, labels, batch.rows)
              ELSE NewEncoder
        encs1 == [encs EXCEPT ![col] = e1]
        seen == \A l \in labels : InSeq(e1.classes, l)
    IN  IF ~present
        THEN [encs |-> encs1, raised |-> TRUE, zeroed |-> FALSE, code |-> 0]
        ELSE IF seen
        THEN [encs |-> encs1, raised |-> FALSE, zeroed |-> FALSE,
              code |-> IF batch.rows = "inference"
                       THEN IndexOf(e1.classes, batch.rec[col]) - 1 ELSE 0]
        ELSE [encs |-> encs1, raised |-> FALSE, zeroed |-> TRUE, code |-> 0]

\* the mutant of ScaleFeatures: fit_transform on every call
ScaleFeaturesRefit(sc, batch) == [sc EXCEPT !.fitOn = batch.rows]

\* lines 114-117: the scaler is fit only when it has no scale_ yet
ScaleFeatures(sc, batch) ==
    IF sc.fitOn = "none" THEN [sc EXCEPT !.fitOn = batch.rows] ELSE sc

\* the value of one feature column of the one-row frame, after fillna(0)
FeatureValue(name, batch, tcode, ccode) ==
    CASE name = "amount" -> batch.rec.amount
      [] name = "hour" -> batch.hour
      [] name = "day_of_week" -> batch.weekday
      [] name = "transaction_type_encoded" -> tcode
      [] name = "amount_percentile" -> Fillna(AmountPercentile(batch))
      [] name = "merchant_category_encoded" -> ccode
      [] OTHER -> 0

NoMatrix == [rows |-> "none", zeroed |-> <<FALSE, FALSE>>, scaledBy |-> "none", raw |-> <<>>]

\* lines 112-119: the columns of feature_columns are selected, NaN filled with
\* 0, and the scaler is fit (first use) or applied; t and c are the outcomes of
\* the two rounds of the encoder loop
SelectAndScale(s, batch, t, c, sc) ==
    [self |-> [s EXCEPT !.label_encoders = c.encs, !.scaler = sc],
     raised |-> FALSE,
     X |-> [rows |-> batch.rows,
            zeroed |-> <<t.zeroed, c.zeroed>>,
            scaledBy |-> sc.fitOn,
            raw |-> IF batch.rows = "inference"
                    THEN [i \in 1..Len(s.feature_columns) |->
                            FeatureValue(s.feature_columns[i], batch, t.code, c.code)]
                    ELSE <<>>]]

\* the second round of the loop (merchant_category) and what follows it
EncodeSecond(s, batch, t, c) ==
    IF c.raised
    THEN [self |-> [s EXCEPT !.label_encoders = c.encs], raised |-> TRUE, X |-> NoMatrix]
    ELSE SelectAndScale(s, batch, t, c, ScaleFeatures(s.scaler, batch))

\* the first round of the loop (transaction_type) and what follows it
EncodeFirst(s, batch, t) ==
    IF t.raised
    THEN [self |-> [s EXCEPT !.label_encoders = t.encs], raised |-> TRUE, X |-> NoMatrix]
    ELSE EncodeSecond(s, batch, t, EncodeColumn(t.encs, batch, Cols[2]))

\* _prepare_features(df): the object after the call, whether it raised, and
\* the scaled matrix (for the one-row frame, its row before scaling and the
\* scaler that scaled it).  qcut on line 96 raises KeyError without an amount.
PrepareFeatures(s, batch) ==
    IF ~HasAmount(batch)
    THEN [self |-> s, raised |-> TRUE, X |-> NoMatrix]
    ELSE EncodeFirst(s, batch, EncodeColumn(s.label_encoders, batch, Cols[1]))

----------------------------------------------------------------------------
(* The classifier *)

ScalerSig(fitOn) ==
    CASE fitOn = "synthetic" -> 0
      [] fitOn = "foreign" -> 1
      [] fitOn = "inference" -> 2
      [] OTHER -> 3

\* model.fit(features, target) on the synthetic frame: the same object, refit;
\* what it learns depends on the matrix it was given
FitClassifier(clf, X) ==
    [clf EXCEPT !.fitOn = "synthetic",
                !.seed = (IF X.zeroed[1] THEN 1 ELSE 0) + (IF X.zeroed[2] THEN 2 ELSE 0)
                         + 4 * ScalerSig(X.scaledBy)]

\* model.predict_proba(features)[0][1], in hundredths
PredictProba(clf, X) ==
    ProbTable[((clf.seed + ScalerSig(X.scaledBy) + SumSeq(X.raw)) % Len(ProbTable)) + 1]

----------------------------------------------------------------------------
(* The FraudDetector object and the persisted file *)

\* lines 13-25: the fields after the constructor's assignments
FreshObject ==
    [model |-> NewClassifier, label_encoders |-> EmptyEncoders, scaler |-> NewScaler,
     feature_columns |-> FeatureColumns, is_trained |-> FALSE, training_data |-> FALSE]

Self ==
    [model |-> model, label_encoders |-> label_encoders, scaler |-> scaler,
     feature_columns |-> feature_columns, is_trained |-> is_trained,
     training_data |-> training_data]

AllKeys == {Keys[i] : i \in 1..Len(Keys)}

\* an object as it is in the file: joblib.load builds new objects from the blob
Stored(x) == IF x.obj = "none" THEN x ELSE [x EXCEPT !.obj = "blob"]

NoFile ==
    [kind |-> "absent", keys |-> {}, model |-> NewClassifier, label_encoders |-> EmptyEncoders,
     scaler |-> NewScaler, feature_columns |-> FeatureColumns, is_trained |-> FALSE]
CorruptFile == [NoFile EXCEPT !.kind = "corrupt"]

\* the mutant of ModelData: the dict is built with the flag of a scorer that
\* has not been trained yet
ModelDataUntrained(s) ==
    [kind |-> "blob", keys |-> AllKeys, model |-> Stored(s.model),
     label_encoders |-> [c \in DOMAIN s.label_encoders |-> Stored(s.label_encoders[c])],
     scaler |-> Stored(s.scaler), feature_columns |-> s.feature_columns,
     is_trained |-> FALSE]

\* lines 185-191: the dict _save_model dumps
ModelData(s) ==
    [kind |-> "blob", keys |-> AllKeys, model |-> Stored(s.model),
     label_encoders |-> [c \in DOMAIN s.label_encoders |-> Stored(s.label_encoders[c])],
     scaler |-> Stored(s.scaler), feature_columns |-> s.feature_columns,
     is_trained |-> s.is_trained]

\* _save_model: joblib.dump writes the dict ("ok"), or raises leaving the file
\* as it was ("denied") or cut short ("truncated")
SaveModel(s, f, dump) ==
    CASE dump = "ok" -> [file |-> ModelData(s), raised |-> FALSE]
      [] dump = "denied" -> [file |-> f, raised |-> TRUE]
      [] OTHER -> [file |-> CorruptFile, raised |-> TRUE]

\* the mutant of LoadFrom: the scaler is not restored
RECURSIVE LoadFromSkipScaler(_, _, _)
LoadFromSkipScaler(s, f, i) ==
    IF i > Len(Keys) THEN [self |-> s, raised |-> FALSE]
    ELSE IF Keys[i] \notin f.keys THEN [self |-> s, raised |-> TRUE]
    ELSE IF Keys[i] = "scaler" THEN LoadFromSkipScaler(s, f, i + 1)
    ELSE LoadFromSkipScaler([s EXCEPT ![Keys[i]] = f[Keys[i]]], f, i + 1)

\* lines 197-201: the five assignments in order; the first key the dict does
\* not have raises KeyError, after the assignments before it were made
RECURSIVE LoadFrom(_, _, _)
LoadFrom(s, f, i) ==
    IF i > Len(Keys) THEN [self |-> s, raised |-> FALSE]
    ELSE IF Keys[i] \notin f.keys THEN [self |-> s, raised |-> TRUE]
    ELSE LoadFrom([s EXCEPT ![Keys[i]] = f[Keys[i]]], f, i + 1)

\* _load_model: joblib.load raises on an unreadable file
LoadModel(s, f) ==
    IF f.kind = "corrupt" THEN [self |-> s, raised |-> TRUE] ELSE LoadFrom(s, f, 1)

NoInit ==
    [ran |-> FALSE, existed |-> FALSE, validBefore |-> FALSE, path |-> "none",
     loadFailed |-> FALSE, missingKey |-> FALSE, generated |-> FALSE, fitEncoders |-> {},
     fitScaler |-> FALSE, fitModel |-> FALSE, save |-> "none", raised |-> FALSE,
     again |-> FALSE, before |-> NoFile]

\* lines 85-86: model.fit on the prepared matrix, then is_trained = True
Fitted(p) ==
    [p.self EXCEPT !.model = FitClassifier(p.self.model, p.X), !.is_trained = TRUE]

AfterSave(s, w) == [self |-> s, file |-> w.file, raised |-> w.raised]

\* line 89: _save_model() is the last statement, outside any try
FitAndSave(s1, f, dump) == AfterSave(s1, SaveModel(s1, f, dump))

\* _train_initial_model (lines 78-89)
TrainInitialModel(s, f, dump) == FitAndSave(Fitted(PrepareFeatures(s, TrainingFrame)), f, dump)

InitLog(f) ==
    [NoInit EXCEPT !.ran = TRUE, !.existed = (f.kind # "absent"),
                   !.validBefore = (f.kind = "blob" /\ f.keys = AllKeys),
                   !.before = f]

\* what the bootstrap path (lines 40-41) did, from the object s0 it started on
BootstrapResult(s0, f, t) ==
    [self |-> t.self, file |-> t.file, raised |-> t.raised,
     log |-> [InitLog(f) EXCEPT
                !.path = "bootstrap",
                !.loadFailed = (f.kind # "absent"),
                !.missingKey = (f.kind = "blob"),
                !.generated = TRUE,
                !.fitEncoders = {c \in DOMAIN s0.label_encoders :
                                    s0.label_encoders[c].obj = "none"},
                !.fitScaler = (s0.scaler.fitOn = "none"),
                !.fitModel = TRUE,
                !.save = IF t.raised THEN "failed" ELSE "ok",
                !.raised = t.raised]]

\* lines 40-41: _create_initial_training_data, then _train_initial_model
Bootstrap(s0, f, dump) == BootstrapResult(s0, f, TrainInitialModel(s0, f, dump))

\* the mutant of AfterLoad: no return after a successful load
AfterLoadNoReturn(f, dump, l) ==
    Bootstrap([l.self EXCEPT !.training_data = TRUE], f, dump)

\* lines 31-41, with l the outcome of _load_model (not called when the file
\* does not exist): return after a load that did not raise, else bootstrap on
\* the object as the load left it
AfterLoad(f, dump, l) ==
    IF f.kind # "absent" /\ ~l.raised
    THEN [self |-> l.self, file |-> f, raised |-> FALSE,
          log |-> [InitLog(f) EXCEPT !.path = "load"]]
    ELSE Bootstrap([l.self EXCEPT !.training_data = TRUE], f, dump)

\* _initialize_model (lines 30-42): the object and the file after the call,
\* whether the call raised, and what it did
InitializeModel(s, f, dump) ==
    AfterLoad(f, dump, IF f.kind # "absent" THEN LoadModel(s, f)
                       ELSE [self |-> s, raised |-> FALSE])

----------------------------------------------------------------------------
(* predict_fraud *)

\* the mutant of RiskLevel: the boundaries fall in the upper tier
RiskLevelInclusive(p) ==
    IF p >= HighRisk THEN "HIGH" ELSE IF p >= MediumRisk THEN "MEDIUM" ELSE "LOW"

\* lines 146-151
RiskLevel(p) ==
    IF p > HighRisk THEN "HIGH" ELSE IF p > MediumRisk THEN "MEDIUM" ELSE "LOW"

\* the return of line 124 and the return of the except branch, line 157
NotTrained(s) ==
    [self |-> s, prob |-> NeutralProbability, tier |-> "Model not trained",
     error |-> FALSE, escaped |-> FALSE, X |-> NoMatrix]
Fallback(s) ==
    [self |-> s, prob |-> NeutralProbability, tier |-> "UNKNOWN",
     error |-> TRUE, escaped |-> FALSE, X |-> NoMatrix]
\* an exception that leaves predict_fraud (the code has no such path)
Escapes(s) ==
    [self |-> s, prob |-> 0, tier |-> "<raised>", error |-> TRUE, escaped |-> TRUE,
     X |-> NoMatrix]

\* pd.to_datetime of the record's timestamp, or the clock when it has none
TimestampOk(rec) == rec.timestamp.kind # "bad"
HourOf(rec, now) == IF rec.timestamp.kind = "absent" THEN now.hour ELSE rec.timestamp.hour
WeekdayOf(rec, now) ==
    IF rec.timestamp.kind = "absent" THEN now.weekday ELSE rec.timestamp.weekday

\* lines 143-153 on the prepared row
Classify(s, X, pr) ==
    [self |-> s, prob |-> pr, tier |-> RiskLevel(pr), error |-> FALSE, escaped |-> FALSE,
     X |-> X]

\* the mutant of Score: the handler is "except ValueError", so the KeyError
\* of a record without an amount or a categorical key leaves the call
ScoreNarrowExcept(fault, p) ==
    IF p.raised THEN Escapes(p.self)
    ELSE IF fault = "proba" \/ p.self.model.fitOn = "none" THEN Fallback(p.self)
    ELSE Classify(p.self, p.X, PredictProba(p.self.model, p.X))

\* lines 140-157, with p the outcome of _prepare_features: an exception of
\* _prepare_features or of predict_proba (NotFittedError for an unfitted
\* forest) is caught by "except Exception"
Score(fault, p) ==
    IF p.raised THEN Fallback(p.self)
    ELSE IF fault = "proba" \/ p.self.model.fitOn = "none" THEN Fallback(p.self)
    ELSE Classify(p.self, p.X, PredictProba(p.self.model, p.X))

\* predict_fraud(transaction_data) (lines 123-157).  fault is the step at
\* which a library call raises for a reason outside the record (none, or
\* building the frame, the timestamp, _prepare_features, predict_proba);
\* a malformed timestamp, a missing amount or categorical key and an unfitted
\* classifier raise by themselves.  Everything after the is_trained test runs
\* inside try / except Exception.
PredictFraud(s, rec, fault, now) ==
    IF ~s.is_trained THEN NotTrained(s)
    ELSE IF fault \in {"frame", "timestamp", "features"} \/ ~TimestampOk(rec) THEN Fallback(s)
    ELSE Score(fault, PrepareFeatures(s, RecordFrame(rec, HourOf(rec, now), WeekdayOf(rec, now))))

----------------------------------------------------------------------------
(* get_fraud_reasons *)

\* transaction_data.get('amount', 0)
AmountOf(rec) == IF rec.hasAmount THEN rec.amount ELSE 0

\* the mutant of FraudReasons: the probability reason is appended first
FraudReasonsReordered(rec, p, now) ==
    LET amount == AmountOf(rec)
        hour == HourOf(rec, now)
        r0 == IF p > HighRisk THEN <<"Multiple risk factors detected">> ELSE <<>>
        r1 == IF amount > VeryHighAmount
              THEN Append(r0, "Very high transaction amount") ELSE r0
        r2 == IF amount < LowAmount
              THEN Append(r1, "Unusually low transaction amount") ELSE r1
        r3 == IF hour < FirstUsualHour \/ hour > LastUsualHour
              THEN Append(r2, "Transaction at unusual hours") ELSE r2
    IN  IF r3 = <<>> THEN <<"Standard risk assessment completed">> ELSE r3

\* the list of lines 161-181, for a record whose timestamp parses
FraudReasons(rec, p, now) ==
    LET amount == AmountOf(rec)
        hour == HourOf(rec, now)
        r1 == IF amount > VeryHighAmount THEN <<"Very high transaction amount">> ELSE <<>>
        r2 == IF amount < LowAmount
              THEN Append(r1, "Unusually low transaction amount") ELSE r1
        r3 == IF hour < FirstUsualHour \/ hour > LastUsualHour
              THEN Append(r2, "Transaction at unusual hours") ELSE r2
        r4 == IF p > HighRisk THEN Append(r3, "Multiple risk factors detected") ELSE r3
    IN  IF r4 = <<>> THEN <<"Standard risk assessment completed">> ELSE r4

----------------------------------------------------------------------------
(* Inputs *)

At(h) == [kind |-> "datetime", hour |-> h, weekday |-> h % 7]

\* amount 1.00, P2P, FOOD, 06:00: no rule of the reason list holds
BaseRecord ==
    [hasAmount |-> TRUE, amount |-> 100, transaction_type |-> "P2P",
     merchant_category |-> "FOOD", timestamp |-> At(6)]

Clock == {[hour |-> 3, weekday |-> 1], [hour |-> 14, weekday |-> 2]}

\* the records the callers pass: the boundaries of the amount and hour rules,
\* labels the synthetic frame does not have, and records that lack a key or
\* carry a timestamp that does not parse
Records ==
    { BaseRecord,
      [BaseRecord EXCEPT !.timestamp = At(5)],
      [BaseRecord EXCEPT !.timestamp = At(22)],
      [BaseRecord EXCEPT !.amount = 50, !.timestamp = At(5)],
      [BaseRecord EXCEPT !.amount = 50, !.timestamp = At(22)],
      [BaseRecord EXCEPT !.amount = 5000000, !.timestamp = At(22)],
      [BaseRecord EXCEPT !.amount = 6000000, !.timestamp = At(23)],
      [BaseRecord EXCEPT !.amount = 6000000],
      [BaseRecord EXCEPT !.transaction_type = "UPI"],
      [BaseRecord EXCEPT !.merchant_category = "CRYPTO", !.timestamp = At(23)],
      [BaseRecord EXCEPT !.transaction_type = "UPI", !.merchant_category = "CRYPTO"],
      [BaseRecord EXCEPT !.transaction_type = NoValue],
      [BaseRecord EXCEPT !.hasAmount = FALSE, !.amount = 0],
      [BaseRecord EXCEPT !.timestamp = [kind |-> "bad", hour |-> 0, weekday |-> 0]],
      [BaseRecord EXCEPT !.timestamp = [kind |-> "absent", hour |-> 0, weekday |-> 0]],
      [BaseRecord EXCEPT !.amount = 6000000,
                         !.timestamp = [kind |-> "absent", hour |-> 0, weekday |-> 0]] }

Faults == {"none", "frame", "timestamp", "features", "proba"}
Dumps == {"ok", "denied", "truncated"}
ReasonProbabilities == {50, 80, 81}

\* a blob an earlier version or run left behind: fitted objects, fit on other
\* data, under the keys it has
ForeignEncoders ==
    [c \in {Cols[1], Cols[2]} |->
        [obj |-> "blob", fitOn |-> "foreign",
         classes |-> IF c = Cols[1] THEN <<"P2M", "P2P", "UPI">>
                     ELSE SelectSeq(SortedLabels, LAMBDA l : l \in SyntheticLabels(Cols[2]))]]
ForeignBlob(keys) ==
    [kind |-> "blob", keys |-> keys,
     model |-> [obj |-> "blob", fitOn |-> "foreign", seed |-> 3],
     label_encoders |-> ForeignEncoders,
     scaler |-> [obj |-> "blob", fitOn |-> "foreign"],
     feature_columns |-> FeatureColumns, is_trained |-> TRUE]

\* what can be at the path when the process starts: nothing, an unreadable
\* file, a complete blob, or a blob without one of the five keys
InitialFiles ==
    {NoFile, CorruptFile, ForeignBlob(AllKeys)}
    \cup {ForeignBlob(AllKeys \ {k}) : k \in AllKeys}

NoCall ==
    [op |-> "none", rec |-> NoRecord, fault |-> "none", hour |-> 0, prob |-> 0, tier |-> "",
     error |-> FALSE,
     escaped |-> FALSE, X |-> NoMatrix, reasons |-> <<>>]

NoSave == [valid |-> FALSE, state |-> FreshObject]

NoSubmit == [ran |-> FALSE, prob |-> 0, tier |-> "", txid |-> 0, dbFault |-> "none"]

----------------------------------------------------------------------------
(* The state machine *)

SetObject(s) ==
    /\ model' = s.model
    /\ label_encoders' = s.label_encoders
    /\ scaler' = s.scaler
    /\ feature_columns' = s.feature_columns
    /\ is_trained' = s.is_trained
    /\ training_data' = s.training_data

Init ==
    /\ model = FreshObject.model
    /\ label_encoders = FreshObject.label_encoders
    /\ scaler = FreshObject.scaler
    /\ feature_columns = FreshObject.feature_columns
    /\ is_trained = FreshObject.is_trained
    /\ training_data = FreshObject.training_data
    /\ file \in InitialFiles
    /\ alive = FALSE
    /\ objects = 0
    /\ lastInit = NoInit
    /\ lastSaved = NoSave
    /\ last = NoCall
    /\ transactions = <<>>
    /\ alerts = <<>>
    /\ submitted = NoSubmit

\* get_fraud_reasons(transaction_data, fraud_probability): pd.to_datetime of
\* line 164 is outside any try, so a malformed timestamp raises to the caller
GetFraudReasons(rec, p, now) ==
    IF TimestampOk(rec)
    THEN [raised |-> FALSE, reasons |-> FraudReasons(rec, p, now)]
    ELSE [raised |-> TRUE, reasons |-> <<>>]

\* fraud_detector = FraudDetector() (line 204, lines 12-26): a process starts,
\* the fields are set and _initialize_model runs.  When it raises, the import
\* fails and there is no instance.
Construct ==
    /\ objects < MaxObjects
    /\ \E dump \in Dumps :
        \E r \in {InitializeModel(FreshObject, file, dump)} :
            /\ SetObject(IF r.raised THEN FreshObject ELSE r.self)
            /\ file' = r.file
            /\ alive' = ~r.raised
            /\ lastInit' = r.log
            /\ lastSaved' = IF r.log.save = "ok"
                            THEN [valid |-> TRUE, state |-> r.self] ELSE lastSaved
    /\ objects' = objects + 1
    /\ last' = NoCall
    /\ UNCHANGED db

\* _initialize_model() invoked a second time on the live instance
Reinitialize ==
    /\ alive
    /\ \E dump \in Dumps :
        \E r \in {InitializeModel(Self, file, dump)} :
            /\ SetObject(r.self)
            /\ file' = r.file
            /\ lastInit' = [r.log EXCEPT !.again = TRUE]
            /\ lastSaved' = IF r.log.save = "ok"
                            THEN [valid |-> TRUE, state |-> r.self] ELSE lastSaved
    /\ UNCHANGED <<alive, objects, last>>
    /\ UNCHANGED db

\* a caller's fraud_detector.predict_fraud(transaction_data)
Predict ==
    /\ alive
    /\ \E rec \in Records, fault \in Faults, now \in Clock :
        \E r \in {PredictFraud(Self, rec, fault, now)} :
            /\ SetObject(r.self)
            /\ last' = [op |-> "predict", rec |-> rec, fault |-> fault, hour |-> HourOf(rec, now),
                        prob |-> r.prob, tier |-> r.tier, error |-> r.error,
                        escaped |-> r.escaped, X |-> r.X, reasons |-> <<>>]
    /\ UNCHANGED <<file, alive, objects, lastInit, lastSaved>>
    /\ UNCHANGED db

\* a caller's fraud_detector.get_fraud_reasons(transaction_data, probability)
Reasons ==
    /\ alive
    /\ \E rec \in Records, p \in ReasonProbabilities, now \in Clock :
        \E r \in {GetFraudReasons(rec, p, now)} :
            last' = [op |-> "reasons", rec |-> rec, fault |-> "none", hour |-> HourOf(rec, now),
                     prob |-> p, tier |-> "", error |-> r.raised,
                     escaped |-> r.raised, X |-> NoMatrix, reasons |-> r.reasons]
    /\ UNCHANGED <<model, label_encoders, scaler, feature_columns, is_trained,
                   training_data, file, alive, objects, lastInit, lastSaved>>
    /\ UNCHANGED db

Next == Construct \/ Reinitialize \/ Predict \/ Reasons

Spec == Init /\ [][Next]_vars

----------------------------------------------------------------------------
(* predict_fraud and get_fraud_reasons as functions of the object: the two  *)
(* calls on an instance whose fields hold any Model State, trained or not,  *)
(* fitted or not                                                            *)

AnyObjects ==
    [model : {NewClassifier, ForeignBlob(AllKeys).model},
     label_encoders : {EmptyEncoders, ForeignEncoders},
     scaler : {NewScaler, ForeignBlob(AllKeys).scaler},
     feature_columns : {FeatureColumns},
     is_trained : BOOLEAN,
     training_data : {FALSE}]

InitAny ==
    /\ \E s \in AnyObjects :
          /\ model = s.model
          /\ label_encoders = s.label_encoders
          /\ scaler = s.scaler
          /\ feature_columns = s.feature_columns
          /\ is_trained = s.is_trained
          /\ training_data = s.training_data
    /\ file = NoFile
    /\ alive = TRUE
    /\ objects = 1
    /\ lastInit = NoInit
    /\ lastSaved = NoSave
    /\ last = NoCall
    /\ transactions = <<>>
    /\ alerts = <<>>
    /\ submitted = NoSubmit

NextAny == Predict \/ Reasons

SpecAnyState == InitAny /\ [][NextAny]_vars

----------------------------------------------------------------------------
(* The web layer (src/routes.py): POST /test-transaction scores a submitted *)
(* form, stores the transaction and, above the alert threshold, an alert;   *)
(* POST /resolve-alert/<id> marks an alert resolved.  The tables of         *)
(* src/models.py outlive a restart of the process.                          *)

TransactionTypes == {"P2P", "P2M", "P2B"}

\* what a user submits: amount (hundredths), type and merchant category ("" is
\* the "Select Category" choice); the last one fails NumberRange(min=0.01)
Forms ==
    { [amount |-> 100, transaction_type |-> "P2P", merchant_category |-> "FOOD"],
      [amount |-> 6000000, transaction_type |-> "P2M", merchant_category |-> ""],
      [amount |-> 0, transaction_type |-> "P2P", merchant_category |-> "FOOD"] }

\* form.validate_on_submit(), for the fields the model keeps
ValidateOnSubmit(form) ==
    /\ form.amount >= MinAmount /\ form.amount <= MaxAmount
    /\ form.transaction_type \in TransactionTypes

\* lines 74-83: transaction_data, with timestamp = datetime.utcnow()
TransactionData(form, now) ==
    [hasAmount |-> TRUE, amount |-> form.amount,
     transaction_type |-> form.transaction_type,
     merchant_category |-> IF form.merchant_category = "" THEN "OTHER"
                           ELSE form.merchant_category,
     timestamp |-> [kind |-> "datetime", hour |-> now.hour, weekday |-> now.weekday]]

\* the steps of the handler at which a library call of the scorer may raise,
\* and the commit that may raise (db.session.commit of the transaction, of
\* the alert)
RouteFaults == {"none", "features", "proba"}

\* the values of datetime.utcnow() on line 82: a night hour, which makes the
\* unusual-hour reason part of the alert's message
RouteClock == {[hour |-> 3, weekday |-> 1]}
DbFaults == {"none", "transaction", "alert"}

\* line 88
IsFraud(p) == p > FraudFlagThreshold

\* the mutant of NeedsAlert: the alert is raised from the fraud threshold on
NeedsAlertFromNeutral(p) == p >= FraudFlagThreshold

\* line 108
NeedsAlert(p) == p > AlertThreshold

\* lines 91-102: the Transaction row, with the id the commit gives it
NewTransaction(txs, data, r) ==
    [id |-> Len(txs) + 1, amount |-> data.amount,
     transaction_type |-> data.transaction_type,
     merchant_category |-> data.merchant_category,
     is_fraud |-> IsFraud(r.prob), risk_score |-> r.prob, hour |-> data.timestamp.hour]

\* lines 112-117: the FraudAlert row
NewAlert(als, tx, r, g) ==
    [id |-> Len(als) + 1, transaction_id |-> tx.id, alert_type |-> "HIGH_RISK_TRANSACTION",
     severity |-> r.tier, message |-> g.reasons, is_resolved |-> FALSE]

PredictCall(data, fault, now, r) ==
    [op |-> "predict", rec |-> data, fault |-> fault, hour |-> HourOf(data, now),
     prob |-> r.prob, tier |-> r.tier, error |-> r.error, escaped |-> r.escaped,
     X |-> r.X, reasons |-> <<>>]

ReasonsCall(data, now, r, g) ==
    [op |-> "reasons", rec |-> data, fault |-> "none", hour |-> HourOf(data, now),
     prob |-> r.prob, tier |-> "", error |-> g.raised, escaped |-> g.raised,
     X |-> NoMatrix, reasons |-> g.reasons]

Submitted(r, txid, dbFault) ==
    [ran |-> TRUE, prob |-> r.prob, tier |-> r.tier, txid |-> txid, dbFault |-> dbFault]

\* lines 107-120, after the transaction tx was committed: above the threshold
\* get_fraud_reasons (outcome g) is called and the alert is added and
\* committed; an exception of either is caught on line 130 and leaves the
\* transaction without an alert
AlertStep(txs, als, tx, data, now, r, g, dbFault) ==
    IF ~NeedsAlert(r.prob)
    THEN [transactions |-> Append(txs, tx), alerts |-> als,
          submitted |-> Submitted(r, tx.id, "none"),
          last |-> PredictCall(data, "none", now, r)]
    ELSE IF g.raised \/ dbFault = "alert"
    THEN [transactions |-> Append(txs, tx), alerts |-> als,
          submitted |-> Submitted(r, tx.id, IF g.raised THEN "none" ELSE "alert"),
          last |-> ReasonsCall(data, now, r, g)]
    ELSE [transactions |-> Append(txs, tx), alerts |-> Append(als, NewAlert(als, tx, r, g)),
          submitted |-> Submitted(r, tx.id, "none"),
          last |-> ReasonsCall(data, now, r, g)]

\* lines 86-131, with r the outcome of predict_fraud: an exception of
\* predict_fraud or of the first commit is caught on line 130 and nothing is
\* stored
Persist(txs, als, data, now, fault, r, dbFault) ==
    IF r.escaped \/ dbFault = "transaction"
    THEN [transactions |-> txs, alerts |-> als,
          submitted |-> Submitted(r, 0, IF r.escaped THEN "none" ELSE "transaction"),
          last |-> PredictCall(data, fault, now, r)]
    ELSE [AlertStep(txs, als, NewTransaction(txs, data, r), data, now, r,
                    GetFraudReasons(data, r.prob, now), dbFault)
            EXCEPT !.last.fault = fault]

\* test_transaction, POST (lines 68-134); a form that does not validate is
\* rendered again and nothing changes
TestTransaction ==
    /\ alive
    /\ Len(transactions) < MaxTransactions
    /\ \E form \in Forms, now \in RouteClock, fault \in RouteFaults, dbFault \in DbFaults :
        IF ~ValidateOnSubmit(form)
        THEN UNCHANGED <<model, label_encoders, scaler, feature_columns, is_trained,
                         training_data, last, transactions, alerts, submitted>>
        ELSE \E r \in {PredictFraud(Self, TransactionData(form, now), fault, now)} :
               \E o \in {Persist(transactions, alerts, TransactionData(form, now), now,
                                 fault, r, dbFault)} :
                  /\ SetObject(r.self)
                  /\ transactions' = o.transactions
                  /\ alerts' = o.alerts
                  /\ submitted' = o.submitted
                  /\ last' = o.last
    /\ UNCHANGED <<file, alive, objects, lastInit, lastSaved>>

\* resolve_alert(alert_id), POST (lines 159-166); an id without a row is a 404
ResolveAlert ==
    /\ alive
    /\ \E alert_id \in 1..MaxTransactions :
        alerts' = IF alert_id <= Len(alerts)
                  THEN [alerts EXCEPT ![alert_id].is_resolved = TRUE] ELSE alerts
    /\ UNCHANGED <<model, label_encoders, scaler, feature_columns, is_trained, training_data,
                   file, alive, objects, lastInit, lastSaved, last, transactions, submitted>>

\* the process starts on any persisted file, or runs on an instance in any
\* Model State; the tables start empty
InitRoutes == Init \/ InitAny

NextRoutes == Construct \/ TestTransaction \/ ResolveAlert

SpecRoutes == InitRoutes /\ [][NextRoutes]_vars

----------------------------------------------------------------------------
(* The five persisted fields of an object, without the identity of the      *)
(* Python objects that hold them                                            *)

ModelState(s) ==
    [model |-> Stored(s.model),
     label_encoders |-> [c \in DOMAIN s.label_encoders |-> Stored(s.label_encoders[c])],
     scaler |-> Stored(s.scaler), feature_columns |-> s.feature_columns,
     is_trained |-> s.is_trained]

RiskTiers == {"LOW", "MEDIUM", "HIGH"}

----------------------------------------------------------------------------
(* Claims *)

\* C1: a predict_fraud call on a trained scorer in which no internal error
\* occurred returns the tier its probability alone decides: above 0.8 HIGH,
\* above 0.5 and at most 0.8 MEDIUM, at most 0.5 LOW.
C1_TierFromProbability ==
    (last.op = "predict" /\ is_trained /\ ~last.error) =>
        /\ (last.prob > 80 => last.tier = "HIGH")
        /\ (last.prob > 50 /\ last.prob <= 80 => last.tier = "MEDIUM")
        /\ (last.prob <= 50 => last.tier = "LOW")

\* a scored call that landed on the boundary 0.8
C1_Witness ==
    last.op = "predict" /\ is_trained /\ ~last.error /\ last.prob = 80 /\ last.tier = "MEDIUM"

\* C2: predict_fraud never raises to its caller; an untrained scorer answers
\* (0.5, not-trained sentinel), a failed internal step of a trained scorer
\* answers (0.5, UNKNOWN), and every answer is a probability in [0,1] with a
\* tier among LOW, MEDIUM, HIGH, UNKNOWN and the sentinel.
C2_PredictNeverRaises ==
    last.op = "predict" =>
        /\ ~last.escaped
        /\ last.prob \in 0..100
        /\ last.tier \in RiskTiers \cup {"UNKNOWN", "Model not trained"}
        /\ (~is_trained => last.prob = 50 /\ last.tier = "Model not trained")
        /\ (is_trained /\ last.error => last.prob = 50 /\ last.tier = "UNKNOWN")

\* feature preparation failed on a record without an amount
C2_Witness ==
    /\ last.op = "predict" /\ is_trained /\ last.fault = "none"
    /\ ~last.rec.hasAmount /\ last.error /\ last.tier = "UNKNOWN" /\ last.prob = 50

\* an untrained scorer answered with the sentinel
C2_UntrainedAnswered ==
    last.op = "predict" /\ ~is_trained /\ last.tier = "Model not trained" /\ last.prob = 50

\* C3: once initialization has finished, a predict_fraud or get_fraud_reasons
\* call leaves the classifier, the encoders, the scaler, the feature-column
\* list and the trained flag as they were, whether the state was bootstrapped
\* or loaded: no encoder is created or fit, the scaler is not refit.
C3_InferenceKeepsModelState ==
    [][(alive /\ alive' /\ objects' = objects /\ lastInit' = lastInit) =>
          /\ model' = model
          /\ label_encoders' = label_encoders
          /\ scaler' = scaler
          /\ feature_columns' = feature_columns
          /\ is_trained' = is_trained]_vars

\* a record with an unseen label was scored on a loaded state and on a
\* bootstrapped one would do as well; the encoders are still the loaded ones
C3_Witness ==
    /\ alive /\ lastInit.path = "load" /\ last.op = "predict" /\ ~last.error
    /\ last.rec.merchant_category = "CRYPTO"
    /\ label_encoders = lastInit.before.label_encoders
    /\ scaler = lastInit.before.scaler

\* C4: when initialization completes the scorer is Trained whatever the file
\* was (absent, unreadable, missing a field, loadable), and a Trained scorer
\* never becomes Untrained again.
C4_TrainedAfterInit ==
    /\ [](alive => is_trained)
    /\ [][(alive /\ is_trained /\ alive' /\ objects' = objects) => is_trained']_vars

\* initialization completed on a blob that lacks a field
C4_Witness ==
    alive /\ is_trained /\ lastInit.missingKey /\ lastInit.path = "bootstrap"

\* C5: with a valid persisted Model State present, initialization (the first
\* or a repeated one) only loads: no training data is generated, nothing is
\* fit, the file is not rewritten, and the classifier is the persisted one.
C5_LoadOnlyWhenValid ==
    (lastInit.ran /\ lastInit.validBefore) =>
        /\ lastInit.path = "load"
        /\ ~lastInit.generated /\ ~lastInit.fitModel /\ ~lastInit.fitScaler
        /\ lastInit.fitEncoders = {}
        /\ lastInit.save = "none" /\ ~lastInit.raised
        /\ file = lastInit.before
        /\ alive
        /\ model = file.model /\ label_encoders = file.label_encoders
        /\ scaler = file.scaler

\* initialization ran twice in a row on the blob the process found at start
C5_Witness ==
    /\ lastInit.again /\ lastInit.validBefore /\ lastInit.path = "load"
    /\ file = ForeignBlob(AllKeys) /\ model = file.model

\* C6 (as claimed): no failure of loading or of saving makes initialization
\* fail; it always completes with a Trained scorer.
C6_InitAlwaysCompletes ==
    lastInit.ran => (~lastInit.raised /\ is_trained)

\* C7: saving the Model State and loading it again restores the five fields as
\* they were saved, and predict_fraud answers every record the same after the
\* reload as the saved state did.
C7_SaveLoadRoundTrip ==
    (alive /\ lastInit.path = "load" /\ lastSaved.valid) =>
        /\ ModelState(Self) = ModelState(lastSaved.state)
        /\ \A rec \in Records, now \in Clock :
              /\ PredictFraud(Self, rec, "none", now).prob
                   = PredictFraud(lastSaved.state, rec, "none", now).prob
              /\ PredictFraud(Self, rec, "none", now).tier
                   = PredictFraud(lastSaved.state, rec, "none", now).tier

\* a record was scored by a scorer that loaded what an earlier bootstrap saved
C7_Witness ==
    /\ alive /\ lastInit.path = "load" /\ lastSaved.valid
    /\ model.obj = "blob" /\ model.fitOn = "synthetic"
    /\ last.op = "predict" /\ ~last.error

WellFormed(rec) ==
    rec.hasAmount /\ rec.transaction_type # NoValue /\ rec.merchant_category # NoValue
    /\ TimestampOk(rec)

Unseen(col, rec) ==
    label_encoders[col].obj # "none" /\ ~InSeq(label_encoders[col].classes, rec[col])

\* C8: when the encoder of a column exists and an otherwise well-formed record
\* carries a label it was not fit on, feature building does not raise, the
\* label is encoded as 0, and predict_fraud returns the classifier's
\* probability with its tier, not the (0.5, UNKNOWN) fallback.
C8_UnseenCategory ==
    (/\ last.op = "predict" /\ is_trained /\ last.fault = "none" /\ WellFormed(last.rec)
     /\ (Unseen(Cols[1], last.rec) \/ Unseen(Cols[2], last.rec))) =>
        /\ ~last.error /\ ~last.escaped
        /\ last.tier \in RiskTiers
        /\ last.X.rows = "inference"
        /\ last.prob = PredictProba(model, last.X)
        /\ (Unseen(Cols[1], last.rec) => last.X.raw[4] = 0)
        /\ (Unseen(Cols[2], last.rec) => last.X.raw[6] = 0)

\* a record with an unseen type and an unseen category was scored
C8_Witness ==
    /\ last.op = "predict" /\ is_trained /\ ~last.error
    /\ Unseen(Cols[1], last.rec) /\ Unseen(Cols[2], last.rec)
    /\ last.X.raw[4] = 0 /\ last.X.raw[6] = 0 /\ last.tier \in RiskTiers

ReasonNames ==
    <<"Very high transaction amount", "Unusually low transaction amount",
      "Transaction at unusual hours", "Multiple risk factors detected">>

\* the four rules on the amount (0 when the record has none), the hour and the
\* probability of the latest get_fraud_reasons call
RuleHolds(i) ==
    LET amount == IF last.rec.hasAmount THEN last.rec.amount ELSE 0
    IN  CASE i = 1 -> amount > 5000000
          [] i = 2 -> amount < 100
          [] i = 3 -> last.hour < 6 \/ last.hour > 22
          [] OTHER -> last.prob > 80

C10_RejectedBlobContributesNothing ==
    (alive /\ lastInit.path = "bootstrap" /\ lastInit.missingKey) =>
        /\ model.obj # "blob" /\ model.fitOn = "synthetic"
        /\ scaler.obj # "blob" /\ scaler.fitOn = "synthetic"
        /\ \A c \in DOMAIN label_encoders :
              label_encoders[c].obj # "blob" /\ label_encoders[c].fitOn = "synthetic"

\* C11: after any sequence of submissions and resolutions, every FraudAlert
\* refers to a stored Transaction whose risk_score is above 0.7 and whose
\* is_fraud flag is true, and its severity is HIGH or MEDIUM; a degraded score
\* (0.5 with UNKNOWN or the not-trained sentinel) stores the transaction with
\* is_fraud false (when its commit succeeds) and creates no alert.
C11_AlertsReferToHighRisk ==
    /\ \A i \in 1..Len(alerts) :
          /\ alerts[i].transaction_id \in 1..Len(transactions)
          /\ transactions[alerts[i].transaction_id].id = alerts[i].transaction_id
          /\ transactions[alerts[i].transaction_id].risk_score > 70
          /\ transactions[alerts[i].transaction_id].is_fraud
          /\ alerts[i].severity \in {"HIGH", "MEDIUM"}
    /\ (submitted.ran /\ submitted.tier \in {"UNKNOWN", "Model not trained"}) =>
          /\ submitted.prob = 50
          /\ (submitted.dbFault = "none" =>
                /\ submitted.txid = Len(transactions)
                /\ submitted.txid > 0
                /\ ~transactions[submitted.txid].is_fraud
                /\ transactions[submitted.txid].risk_score = 50)
          /\ \A i \in 1..Len(alerts) : alerts[i].transaction_id # submitted.txid

\* a MEDIUM alert on the first transaction was resolved, and a second
\* submission was scored UNKNOWN and stored without an alert
C11_Witness ==
    /\ Len(transactions) = 2 /\ Len(alerts) = 1
    /\ alerts[1].transaction_id = 1 /\ alerts[1].severity = "MEDIUM" /\ alerts[1].is_resolved
    /\ submitted.ran /\ submitted.tier = "UNKNOWN" /\ submitted.txid = 2
    /\ ~transactions[2].is_fraud

\* an untrained scorer's submission was stored with is_fraud false
C11_UntrainedStored ==
    /\ submitted.ran /\ submitted.tier = "Model not trained" /\ submitted.txid > 0
    /\ ~transactions[submitted.txid].is_fraud /\ alerts = <<>>

====
